---- MODULE Spec2Model ----
(***************************************************************************)
(* Model of GestionProjet (src/App1/controleurs/gestion_projet.py): the    *)
(* store of "projets de magasin", one directory per project holding a      *)
(* config.json document and a copy of the plan file.                       *)
(*                                                                         *)
(* Strings that the code takes apart (project names, paths) are sequences  *)
(* of atoms, one atom per character except for the fixed words "App1",     *)
(* "projets" and "plan".  Free-text strings that the code only tests for   *)
(* emptiness and stores (magasin, auteur, case, produit) are TLA+ strings. *)
(* os.path is modelled with its POSIX behaviour (posixpath): "/" is the    *)
(* only separator and "\" is an ordinary character of a file name.         *)
(* A Python dict whose iteration order matters (the "produits" mapping) is *)
(* a sequence of [case, produits] entries in insertion order; the config   *)
(* dict itself is a function whose DOMAIN is the set of keys present.      *)
(***************************************************************************)
EXTENDS Integers, Sequences, FiniteSets

VARIABLES
    fs,             \* project directories under DOSSIER_PROJETS, by name
    racine,         \* TRUE iff the directory DOSSIER_PROJETS itself exists
    projet_actuel,  \* self.projet_actuel: None or the config dict
    resultat,       \* outcome of the last call: [op, err, ret]
    instances       \* the GestionProjet objects that share the root, when
                    \* their creer_projet calls are followed statement by
                    \* statement: position, arguments, current project, outcome

vars == <<fs, racine, projet_actuel, resultat, instances>>

(***************************************************************************)
(* Bounds and input domains                                                *)
(***************************************************************************)
\* at most MaxPlaced product occurrences are placed in the projects of the root
MaxPlaced == 2

Cases == {"A", "B"}
Produits == {"x", "y"}

\* the names callers pass: empty, blank, plain, padded, and one with "\"
Noms == { <<>>, <<" ">>, <<"a">>, <<" ", "a">>, <<"a", "\\">> }

\* plan source paths callers pass, and those that are existing regular files
Plans == { <<>>, <<"p", ".", "g">>, <<"q", ".", "g">> }
FichiersPlan == { <<"p", ".", "g">> }

\* the arguments callers pass to creer_projet: every name and plan with a
\* magasin and an auteur, and calls that leave the magasin or the auteur empty
ArgsCreer ==
    {<<n, "m", "u", p>> : n \in Noms, p \in Plans}
    \cup {<<n, "", "u", <<"p", ".", "g">> >> : n \in Noms}
    \cup {<<n, "m", "", <<"p", ".", "g">> >> : n \in Noms}

\* the product lists callers pass to definir_produits_case
ListesProduits == { <<>>, <<"x">>, <<"y">>, <<"x", "y">> }

(***************************************************************************)
(* str and os.path (posixpath) helpers                                     *)
(***************************************************************************)
RECURSIVE lstrip(_)
lstrip(s) == IF s # <<>> /\ Head(s) = " " THEN lstrip(Tail(s)) ELSE s

RECURSIVE rstrip(_)
rstrip(s) ==
    IF s # <<>> /\ s[Len(s)] = " " THEN rstrip(SubSeq(s, 1, Len(s) - 1)) ELSE s

\* nom.strip()
strip(s) == rstrip(lstrip(s))

\* s.replace("\\", "/")
replace_backslash(s) == [i \in 1..Len(s) |-> IF s[i] = "\\" THEN "/" ELSE s[i]]

\* os.path.join(a, b)
path_join(a, b) ==
    IF b # <<>> /\ Head(b) = "/" THEN b
    ELSE IF a = <<>> \/ a[Len(a)] = "/" THEN a \o b
    ELSE a \o <<"/">> \o b

\* path.split("/")
RECURSIVE split_slash(_)
split_slash(p) ==
    IF \A i \in 1..Len(p) : p[i] # "/" THEN <<p>>
    ELSE LET i == CHOOSE j \in 1..Len(p) :
                      p[j] = "/" /\ \A k \in 1..(j - 1) : p[k] # "/"
         IN  <<SubSeq(p, 1, i - 1)>> \o split_slash(SubSeq(p, i + 1, Len(p)))

\* "/".join(comps)
RECURSIVE join_slash(_)
join_slash(comps) ==
    IF comps = <<>> THEN <<>>
    ELSE IF Len(comps) = 1 THEN comps[1]
    ELSE comps[1] \o <<"/">> \o join_slash(Tail(comps))

\* the loop of posixpath.normpath over the components
RECURSIVE normpath_comps(_, _, _)
normpath_comps(comps, new_comps, initial_slashes) ==
    IF comps = <<>> THEN new_comps
    ELSE LET comp == Head(comps)
             rest == Tail(comps)
         IN  IF comp = <<>> \/ comp = <<".">>
             THEN normpath_comps(rest, new_comps, initial_slashes)
             ELSE IF \/ comp # <<".", ".">>
                     \/ (initial_slashes = 0 /\ new_comps = <<>>)
                     \/ (new_comps # <<>> /\ new_comps[Len(new_comps)] = <<".", ".">>)
             THEN normpath_comps(rest, Append(new_comps, comp), initial_slashes)
             ELSE IF new_comps # <<>>
             THEN normpath_comps(rest, SubSeq(new_comps, 1, Len(new_comps) - 1),
                                 initial_slashes)
             ELSE normpath_comps(rest, new_comps, initial_slashes)

\* os.path.normpath(path)
normpath(path) ==
    IF path = <<>> THEN <<".">>
    ELSE LET starts(n) == Len(path) >= n /\ \A i \in 1..n : path[i] = "/"
             initial_slashes == IF ~starts(1) THEN 0
                                ELSE IF starts(2) /\ ~starts(3) THEN 2 ELSE 1
             body == join_slash(normpath_comps(split_slash(path), <<>>, initial_slashes))
             res == [i \in 1..initial_slashes |-> "/"] \o body
         IN  IF res = <<>> THEN <<".">> ELSE res

\* index of the last occurrence of c in p, 0 when there is none
rfind(p, c) ==
    IF \E i \in 1..Len(p) : p[i] = c
    THEN CHOOSE i \in 1..Len(p) : p[i] = c /\ \A k \in (i + 1)..Len(p) : p[k] # c
    ELSE 0

\* os.path.splitext(p)[1]
splitext_ext(p) ==
    LET sepIndex == rfind(p, "/")
        dotIndex == rfind(p, ".")
    IN  IF dotIndex > sepIndex
           /\ \E k \in (sepIndex + 1)..(dotIndex - 1) : p[k] # "."
        THEN SubSeq(p, dotIndex, Len(p))
        ELSE <<>>

\* os.path.dirname(p) and os.path.basename(p)
dirname(p) == LET i == rfind(p, "/") IN SubSeq(p, 1, i - 1)
basename(p) == LET i == rfind(p, "/") IN SubSeq(p, i + 1, Len(p))

(***************************************************************************)
(* Python values: None, list, dict (insertion-ordered), json documents     *)
(***************************************************************************)
None == [type |-> "None"]
List(elems) == [type |-> "list", elems |-> elems]
Dict(items) == [type |-> "dict", items |-> items]
Entry(case, produits) == [case |-> case, produits |-> produits]

\* k in d
dict_has(items, k) == \E i \in 1..Len(items) : items[i].case = k

\* d.get(k, [])
dict_get(items, k) ==
    IF dict_has(items, k)
    THEN items[CHOOSE i \in 1..Len(items) : items[i].case = k].produits
    ELSE <<>>

\* d[k] = v that adds an entry without looking for the key
dict_set_ajout(items, k, v) == Append(items, Entry(k, v))

\* d[k] = v : an existing key keeps its position, a new key goes last
dict_set(items, k, v) ==
    IF dict_has(items, k)
    THEN [i \in 1..Len(items) |-> IF items[i].case = k THEN Entry(k, v) ELSE items[i]]
    ELSE Append(items, Entry(k, v))

\* del d[k]
dict_del(items, k) == SelectSeq(items, LAMBDA e : e.case # k)

\* the config dict d with d[k] = v
Avec(d, k, v) == [x \in DOMAIN d \cup {k} |-> IF x = k THEN v ELSE d[x]]

\* the config dict d without key k
Sans(d, k) == [x \in DOMAIN d \ {k} |-> d[x]]

\* the content of a config.json file: missing, not parsable, or a document
Absent == [etat |-> "absent"]
Illisible == [etat |-> "illisible"]

\* json.dump(d, f) on a file opened with "w": the file holds the document
json_dump(d) == [etat |-> "json", doc |-> d]

\* json.load(f) of a file that holds a document
json_load(f) == f.doc

\* open(f, "r") and json.load(f) raise nothing
lisible(f) == f.etat = "json"

(***************************************************************************)
(* The file system under DOSSIER_PROJETS                                   *)
(***************************************************************************)
\* config.DOSSIER_PROJETS: the projects root, the asset root of creer_projet
DOSSIER_PROJETS == <<"App1", "/", "projets">>

\* the directory names the calls can reach: the stripped non-empty names
Dossiers == {strip(n) : n \in Noms} \ {<<>>}

DossierAbsent == [existe |-> FALSE, config |-> Absent, plan |-> <<>>]

\* os.path.isdir(os.path.join(DOSSIER_PROJETS, nom)); "" joins to the root
isdir(nom) ==
    IF nom = <<>> THEN racine
    ELSE nom \in Dossiers /\ fs[nom].existe

\* os.path.exists(os.path.join(DOSSIER_PROJETS, nom))
exists(nom) == isdir(nom)

\* os.path.isfile(plan)
isfile(plan) == plan \in FichiersPlan

\* the config.json found in the directory of nom
fichier_config(nom) == IF nom \in Dossiers THEN fs[nom].config ELSE Absent

\* number of product occurrences held by a placements value
RECURSIVE nb_places(_)
nb_places(items) ==
    IF items = <<>> THEN 0 ELSE Len(Head(items).produits) + nb_places(Tail(items))

(***************************************************************************)
(* Outcomes.  Every raise of the code is a ValueError; the outcome names   *)
(* the raise statement by its kind.  An exception the code does not raise  *)
(* itself (TypeError, AttributeError, FileNotFoundError) keeps its name.   *)
(***************************************************************************)
Issue(op, err, ret) == [op |-> op, err |-> err, ret |-> ret]

\* the call raised before changing anything
echec(op, err) ==
    /\ resultat' = Issue(op, err, <<>>)
    /\ UNCHANGED <<fs, racine, projet_actuel, instances>>

(***************************************************************************)
(* creer_projet                                                            *)
(***************************************************************************)
\* the checks of creer_projet with the plan looked for before the directory
creer_erreur_plan_dabord(nom, magasin, auteur, plan) ==
    IF nom = <<>> \/ magasin = "" \/ auteur = "" \/ plan = <<>>
    THEN "InvalidInputError"
    ELSE IF strip(nom) = <<>> THEN "InvalidInputError"
    ELSE IF ~isfile(plan) THEN "AssetNotFoundError"
    ELSE IF exists(strip(nom)) THEN "DuplicateProjectError"
    ELSE "ok"

\* the checks of creer_projet without the check of the plan file
creer_erreur_sans_plan(nom, magasin, auteur, plan) ==
    IF nom = <<>> \/ magasin = "" \/ auteur = "" \/ plan = <<>>
    THEN "InvalidInputError"
    ELSE IF strip(nom) = <<>> THEN "InvalidInputError"
    ELSE IF exists(strip(nom)) THEN "DuplicateProjectError"
    ELSE "ok"

\* the checks of creer_projet, in the order of the code
creer_erreur(nom, magasin, auteur, plan) ==
    IF nom = <<>> \/ magasin = "" \/ auteur = "" \/ plan = <<>>
    THEN "InvalidInputError"
    ELSE IF strip(nom) = <<>> THEN "InvalidInputError"
    ELSE IF exists(strip(nom)) THEN "DuplicateProjectError"
    ELSE IF ~isfile(plan) THEN "AssetNotFoundError"
    ELSE "ok"

\* mon_plan as given to shutil.copy2: joined and normalised (nom is stripped)
chemin_copie(nom, plan) ==
    normpath(path_join(path_join(path_join(<<"App1">>, <<"projets">>), nom),
                       <<"plan">> \o splitext_ext(plan)))

\* mon_plan as stored in the document: backslashes become slashes
chemin_plan_cree(nom, plan) == replace_backslash(chemin_copie(nom, plan))

\* ma_config with the products field started as a list
config_initiale_liste(nom, magasin, auteur, plan) ==
    [nom |-> nom, magasin |-> magasin, auteur |-> auteur,
     chemin_plan |-> chemin_plan_cree(nom, plan), produits |-> List(<<>>)]

\* ma_config of creer_projet (nom is stripped)
config_initiale(nom, magasin, auteur, plan) ==
    [nom |-> nom, magasin |-> magasin, auteur |-> auteur,
     chemin_plan |-> chemin_plan_cree(nom, plan), produits |-> Dict(<<>>)]

creer_projet(nom0, magasin, auteur, plan) ==
    LET err == creer_erreur(nom0, magasin, auteur, plan)
        nom == strip(nom0)
        mon_plan == chemin_copie(nom, plan)
        ma_config == config_initiale(nom, magasin, auteur, plan)
    IN  IF err # "ok" THEN echec("creer_projet", err)
        ELSE IF dirname(mon_plan) # path_join(DOSSIER_PROJETS, nom)
        THEN \* os.makedirs done, shutil.copy2 finds no such directory
             /\ fs' = [fs EXCEPT ![nom] = [existe |-> TRUE, config |-> Absent,
                                           plan |-> <<>>]]
             /\ racine' = TRUE
             /\ resultat' = Issue("creer_projet", "FileNotFoundError", <<>>)
             /\ UNCHANGED <<projet_actuel, instances>>
        ELSE /\ fs' = [fs EXCEPT ![nom] = [existe |-> TRUE,
                                           config |-> json_dump(ma_config),
                                           plan |-> basename(mon_plan)]]
             /\ racine' = TRUE
             /\ projet_actuel' = ma_config
             /\ resultat' = Issue("creer_projet", "ok", <<>>)
             /\ UNCHANGED instances

(***************************************************************************)
(* charger_projet                                                          *)
(***************************************************************************)
champs_requis == {"nom", "magasin", "auteur", "chemin_plan"}

\* the checks of charger_projet, in the order of the code, given whether the
\* directory exists and the config.json it holds
charger_erreur_de(existe, f) ==
    IF ~existe THEN "ProjectNotFoundError"
    ELSE IF ~lisible(f) THEN "CorruptConfigError"
    ELSE IF ~(champs_requis \subseteq DOMAIN json_load(f)) THEN "InvalidInputError"
    ELSE "ok"

charger_erreur(nom) == charger_erreur_de(isdir(nom), fichier_config(nom))

\* normalisation of chemin_plan
normaliser_chemin(ma_config) ==
    [ma_config EXCEPT !["chemin_plan"] = replace_backslash(normpath(@))]

\* compatibility of the products field that copies the older key and keeps it
normaliser_produits_copie(ma_config) ==
    IF "produits_par_case" \in DOMAIN ma_config
    THEN Avec(ma_config, "produits", ma_config["produits_par_case"])
    ELSE IF "produits" \notin DOMAIN ma_config
    THEN Avec(ma_config, "produits", Dict(<<>>))
    ELSE IF ma_config["produits"].type = "list"
    THEN Avec(ma_config, "produits", Dict(<<>>))
    ELSE ma_config

\* compatibility of the products field
normaliser_produits(ma_config) ==
    IF "produits_par_case" \in DOMAIN ma_config
    THEN Avec(Sans(ma_config, "produits_par_case"), "produits",
              ma_config["produits_par_case"])
    ELSE IF "produits" \notin DOMAIN ma_config
    THEN Avec(ma_config, "produits", Dict(<<>>))
    ELSE IF ma_config["produits"].type = "list"
    THEN Avec(ma_config, "produits", Dict(<<>>))
    ELSE ma_config

\* the config a successful charger_projet returns and makes current, given
\* the config.json it reads
charger_config_de(f) == normaliser_produits(normaliser_chemin(json_load(f)))

charger_config(nom) == charger_config_de(fichier_config(nom))

charger_projet(nom) ==
    LET err == charger_erreur(nom)
    IN  IF err # "ok" THEN echec("charger_projet", err)
        ELSE /\ projet_actuel' = charger_config(nom)
             /\ resultat' = Issue("charger_projet", "ok", <<>>)
             /\ UNCHANGED <<fs, racine, instances>>

(***************************************************************************)
(* supprimer_projet                                                        *)
(***************************************************************************)
supprimer_erreur(nom) ==
    IF ~isdir(nom) THEN "ProjectNotFoundError" ELSE "ok"

\* shutil.rmtree(mon_dossier); the empty name joins to the root itself
rmtree(nom) ==
    IF nom = <<>> THEN [d \in Dossiers |-> DossierAbsent]
    ELSE [fs EXCEPT ![nom] = DossierAbsent]

\* a reset of the current project that does not compare the names
actuel_apres_suppression_toujours(nom) == None

\* the reset of the current project after the removal
actuel_apres_suppression(nom) ==
    IF projet_actuel # None /\ projet_actuel["nom"] = nom
    THEN None ELSE projet_actuel

supprimer_projet(nom) ==
    LET err == supprimer_erreur(nom)
    IN  IF err # "ok" THEN echec("supprimer_projet", err)
        ELSE /\ fs' = rmtree(nom)
             /\ racine' = (racine /\ nom # <<>>)
             /\ projet_actuel' = actuel_apres_suppression(nom)
             /\ resultat' = Issue("supprimer_projet", "ok", <<>>)
             /\ UNCHANGED instances

(***************************************************************************)
(* sauvegarder                                                             *)
(***************************************************************************)
\* the outcome of sauvegarder() were it called with p current
sauvegarder_erreur(p) ==
    IF p = None THEN "NoActiveProjectError"
    ELSE IF ~isdir(p["nom"]) THEN "PersistenceError"
    ELSE "ok"

\* a write that opens config.json for writing and dumps nothing into it
fs_sauvegarde_vide(p) == [fs EXCEPT ![p["nom"]].config = Illisible]

\* the file system after sauvegarder() wrote p
fs_sauvegarde(p) == [fs EXCEPT ![p["nom"]].config = json_dump(p)]

sauvegarder ==
    LET err == sauvegarder_erreur(projet_actuel)
    IN  IF err # "ok" THEN echec("sauvegarder", err)
        ELSE /\ fs' = fs_sauvegarde(projet_actuel)
             /\ resultat' = Issue("sauvegarder", "ok", <<>>)
             /\ UNCHANGED <<racine, projet_actuel, instances>>

(***************************************************************************)
(* definir_produits_case and the read operations                           *)
(***************************************************************************)
\* case in v, for a dict (its keys) or a list (its elements)
contient(v, case) ==
    IF v.type = "dict" THEN dict_has(v.items, case)
    ELSE \E i \in 1..Len(v.elems) : v.elems[i] = case

\* the item assignment or deletion raises: the products field is a list
definir_type_erreur(p, case, produits) ==
    /\ p["produits"].type # "dict"
    /\ (produits # <<>> \/ contient(p["produits"], case))

\* the current project after the in-memory update of definir_produits_case
definir_memoire(p, case, produits) ==
    IF produits # <<>>
    THEN [p EXCEPT !["produits"] = Dict(dict_set(@.items, case, produits))]
    ELSE IF contient(p["produits"], case)
    THEN [p EXCEPT !["produits"] = Dict(dict_del(@.items, case))]
    ELSE p

\* product occurrences held by the dict, if any, under key k of document d
taille_champ(d, k) ==
    IF k \in DOMAIN d /\ d[k].type = "dict" THEN nb_places(d[k].items) ELSE 0

\* product occurrences the root holds once project p is saved
RECURSIVE taille_dossiers(_, _)
taille_dossiers(p, ds) ==
    IF ds = {} THEN 0
    ELSE LET d == CHOOSE x \in ds : TRUE
             ici == IF d = p["nom"] \/ ~lisible(fs[d].config) THEN 0
                    ELSE taille_champ(json_load(fs[d].config), "produits")
                         + taille_champ(json_load(fs[d].config), "produits_par_case")
         IN  ici + taille_dossiers(p, ds \ {d})

taille(p) == taille_champ(p, "produits") + taille_dossiers(p, Dossiers)

definir_produits_case(case, produits) ==
    IF projet_actuel = None
    THEN echec("definir_produits_case", "NoActiveProjectError")
    ELSE IF definir_type_erreur(projet_actuel, case, produits)
    THEN echec("definir_produits_case", "TypeError")
    ELSE LET p == definir_memoire(projet_actuel, case, produits)
             err == sauvegarder_erreur(p)
         IN  /\ taille(p) <= MaxPlaced
             /\ projet_actuel' = p
             /\ fs' = IF err = "ok" THEN fs_sauvegarde(p) ELSE fs
             /\ resultat' = Issue("definir_produits_case", err, <<>>)
             /\ UNCHANGED <<racine, instances>>

\* a read that raises, as the writes do, when nothing is current
obtenir_issue_sans_repli(p, case) ==
    IF p = None THEN Issue("obtenir_produits_case", "NoActiveProjectError", <<>>)
    ELSE IF p["produits"].type # "dict"
    THEN Issue("obtenir_produits_case", "AttributeError", <<>>)
    ELSE Issue("obtenir_produits_case", "ok", dict_get(p["produits"].items, case))

\* what obtenir_produits_case(case) returns or raises with p current
obtenir_issue(p, case) ==
    IF p = None THEN Issue("obtenir_produits_case", "ok", <<>>)
    ELSE IF p["produits"].type # "dict"
    THEN Issue("obtenir_produits_case", "AttributeError", <<>>)
    ELSE Issue("obtenir_produits_case", "ok", dict_get(p["produits"].items, case))

obtenir_produits_case(case) ==
    /\ resultat' = obtenir_issue(projet_actuel, case)
    /\ UNCHANGED <<fs, racine, projet_actuel, instances>>

\* the lists of all entries, concatenated in iteration order
RECURSIVE concatener(_)
concatener(items) ==
    IF items = <<>> THEN <<>> ELSE Head(items).produits \o concatener(Tail(items))

\* what obtenir_tous_produits_places() returns or raises with p current
tous_issue(p) ==
    IF p = None THEN Issue("obtenir_tous_produits_places", "ok", <<>>)
    ELSE IF p["produits"].type # "dict"
    THEN Issue("obtenir_tous_produits_places", "AttributeError", <<>>)
    ELSE Issue("obtenir_tous_produits_places", "ok", concatener(p["produits"].items))

obtenir_tous_produits_places ==
    /\ resultat' = tous_issue(projet_actuel)
    /\ UNCHANGED <<fs, racine, projet_actuel, instances>>

\* produit in produits
dans(produit, produits) == \E i \in 1..Len(produits) : produits[i] = produit

\* the first case in iteration order holding produit: <<case>>, or <<>> for None
premiere_case(items, produit) ==
    IF \E i \in 1..Len(items) : dans(produit, items[i].produits)
    THEN <<items[CHOOSE i \in 1..Len(items) :
                    /\ dans(produit, items[i].produits)
                    /\ \A j \in 1..(i - 1) : ~dans(produit, items[j].produits)].case>>
    ELSE <<>>

\* what trouver_case_produit(produit) returns or raises with p current
trouver_issue(p, produit) ==
    IF p = None THEN Issue("trouver_case_produit", "ok", <<>>)
    ELSE IF p["produits"].type # "dict"
    THEN Issue("trouver_case_produit", "AttributeError", <<>>)
    ELSE Issue("trouver_case_produit", "ok", premiere_case(p["produits"].items, produit))

trouver_case_produit(produit) ==
    /\ resultat' = trouver_issue(projet_actuel, produit)
    /\ UNCHANGED <<fs, racine, projet_actuel, instances>>

(***************************************************************************)
(* Initial states: nothing is current (__init__); the projects root holds  *)
(* no project, or one directory "a" left by an earlier run or an earlier   *)
(* version of the program (the shapes charger_projet provides for).        *)
(***************************************************************************)
DossierInitial == <<"a">>

\* values found under "produits" and under the older key "produits_par_case"
ProduitsAnciens ==
    { List(<<>>), List(<<"x">>), Dict(<<>>),
      Dict(<<Entry("A", <<"x">>)>>), Dict(<<Entry("A", <<>>)>>) }
ParCaseAnciens ==
    { List(<<>>), Dict(<<Entry("B", <<"y">>), Entry("A", <<"x">>)>>),
      Dict(<<Entry("A", <<>>)>>) }

\* stored plan paths: as creer_projet writes them, and with backslashes
CheminAncien == <<"App1", "/", "projets", "/", "a", "/", "plan", ".", "g">>
CheminAncienWindows == <<"App1", "\\", "projets", "\\", "a", "\\", "plan", ".", "g">>

\* the required fields: in order, with a backslash path, and with a stored
\* name that is not the name of the directory
DocsRequis ==
    { [nom |-> <<"a">>, magasin |-> "m", auteur |-> "u", chemin_plan |-> CheminAncien],
      [nom |-> <<"a">>, magasin |-> "m", auteur |-> "u",
       chemin_plan |-> CheminAncienWindows],
      [nom |-> <<"a", "\\">>, magasin |-> "m", auteur |-> "u",
       chemin_plan |-> CheminAncien] }

DocsInitiaux ==
    DocsRequis
    \cup {Avec(d, "produits", v) : d \in DocsRequis, v \in ProduitsAnciens}
    \cup {Avec(d, "produits_par_case", v) : d \in DocsRequis, v \in ParCaseAnciens}
    \cup {Avec(Avec(d, "produits", List(<<"x">>)), "produits_par_case",
               Dict(<<Entry("B", <<"y">>)>>)) : d \in DocsRequis}
    \cup {Sans(d, "auteur") : d \in DocsRequis}

ConfigsInitiales == {Absent, Illisible} \cup {json_dump(d) : d \in DocsInitiaux}

\* the objects that take part in interleaved calls, each just constructed
Instances == {1, 2}

InstanceInitiale ==
    [pc |-> "repos", args |-> <<>>, projet_actuel |-> None, err |-> "ok"]

Init ==
    /\ racine = TRUE
    /\ projet_actuel = None
    /\ resultat = Issue("__init__", "ok", <<>>)
    /\ instances = [i \in Instances |-> InstanceInitiale]
    /\ \/ fs = [d \in Dossiers |-> DossierAbsent]
       \/ \E c \in ConfigsInitiales :
            fs = [d \in Dossiers |->
                    IF d = DossierInitial
                    THEN [existe |-> TRUE, config |-> c,
                          plan |-> IF c = Absent THEN <<>> ELSE <<"plan", ".", "g">>]
                    ELSE DossierAbsent]

Next ==
    \/ \E args \in ArgsCreer : creer_projet(args[1], args[2], args[3], args[4])
    \/ \E nom \in Noms : charger_projet(nom)
    \/ \E nom \in Noms : supprimer_projet(nom)
    \/ sauvegarder
    \/ \E case \in Cases, produits \in ListesProduits :
         definir_produits_case(case, produits)
    \/ \E case \in Cases : obtenir_produits_case(case)
    \/ obtenir_tous_produits_places
    \/ \E produit \in Produits : trouver_case_produit(produit)

Spec == Init /\ [][Next]_vars

(***************************************************************************)
(* creer_projet called on several GestionProjet objects over the same root *)
(* and followed statement by statement.  Each object runs its own call     *)
(* from the checks to the assignment of projet_actuel; the steps of the    *)
(* objects interleave.  The other operations are not called.               *)
(***************************************************************************)
\* the arguments object i passes: the magasin tells the objects apart
ArgsInstance(i) ==
    {<<n, IF i = 1 THEN "m" ELSE "n", "u", p>> : n \in Noms, p \in Plans}

\* the stripped name and ma_config of the call object i is in
nom_de(i) == strip(instances[i].args[1])
config_de(i) ==
    config_initiale(nom_de(i), instances[i].args[2], instances[i].args[3],
                    instances[i].args[4])

\* the call of object i ends with err
fin(i, err) ==
    instances' = [instances EXCEPT ![i].pc = "repos", ![i].args = <<>>,
                                   ![i].err = err]

\* the call of object i goes on at pc
suite(i, pc) == instances' = [instances EXCEPT ![i].pc = pc]

\* the checks of creer_projet
conc_verifier(i, args) ==
    /\ instances[i].pc = "repos"
    /\ LET err == creer_erreur(args[1], args[2], args[3], args[4])
       IN  IF err # "ok" THEN fin(i, err)
           ELSE instances' = [instances EXCEPT ![i].pc = "makedirs",
                                               ![i].args = args]
    /\ UNCHANGED <<fs, racine, projet_actuel, resultat>>

\* os.makedirs with exist_ok=True
makedirs_exist_ok(nom) == "ok"

\* os.makedirs(mon_dossier): exist_ok is False
makedirs_erreur(nom) == IF exists(nom) THEN "FileExistsError" ELSE "ok"

conc_makedirs(i) ==
    /\ instances[i].pc = "makedirs"
    /\ IF makedirs_erreur(nom_de(i)) # "ok"
       THEN /\ fin(i, makedirs_erreur(nom_de(i)))
            /\ UNCHANGED <<fs, racine>>
       ELSE /\ fs' = [fs EXCEPT ![nom_de(i)].existe = TRUE]
            /\ racine' = TRUE
            /\ suite(i, "copy2")
    /\ UNCHANGED <<projet_actuel, resultat>>

\* shutil.copy2(plan, mon_plan)
conc_copy2(i) ==
    /\ instances[i].pc = "copy2"
    /\ LET mon_plan == chemin_copie(nom_de(i), instances[i].args[4])
       IN  IF dirname(mon_plan) # path_join(DOSSIER_PROJETS, nom_de(i))
           THEN fin(i, "FileNotFoundError") /\ UNCHANGED fs
           ELSE /\ fs' = [fs EXCEPT ![nom_de(i)].plan = basename(mon_plan)]
                /\ suite(i, "dump")
    /\ UNCHANGED <<racine, projet_actuel, resultat>>

\* open(mon_fichier, "w") and json.dump(ma_config, f)
conc_dump(i) ==
    /\ instances[i].pc = "dump"
    /\ fs' = [fs EXCEPT ![nom_de(i)].config = json_dump(config_de(i))]
    /\ suite(i, "affecter")
    /\ UNCHANGED <<racine, projet_actuel, resultat>>

\* self.projet_actuel = ma_config, and the call returns
conc_affecter(i) ==
    /\ instances[i].pc = "affecter"
    /\ instances' = [instances EXCEPT ![i].pc = "repos", ![i].args = <<>>,
                                      ![i].err = "ok",
                                      ![i].projet_actuel = config_de(i)]
    /\ UNCHANGED <<fs, racine, projet_actuel, resultat>>

NextConc ==
    \E i \in Instances :
        \/ \E args \in ArgsInstance(i) : conc_verifier(i, args)
        \/ conc_makedirs(i)
        \/ conc_copy2(i)
        \/ conc_dump(i)
        \/ conc_affecter(i)

SpecConc == Init /\ [][NextConc]_vars

(***************************************************************************)
(* The same calls when the operating system refuses an operation on a      *)
(* file (shutil.copy2, open, json.dump, shutil.rmtree raise OSError).  What *)
(* a refused operation leaves behind is a choice among the outcomes it can *)
(* have: nothing done, or done in part.                                    *)
(***************************************************************************)
\* what a refused write of config.json in directory nom can leave: the file
\* as it was (open refused) or cut short (the dump refused)
ecritures_refusees(nom) ==
    {fs, [fs EXCEPT ![nom].config = Illisible]}

\* what creer_projet leaves when shutil.copy2 or the write of config.json is
\* refused after os.makedirs: the directory, with or without the plan copy,
\* and no config.json or one cut short
dossiers_apres_creation_refusee(nom, plan) ==
    {[fs EXCEPT ![nom] = [existe |-> TRUE, config |-> c, plan |-> pl]] :
        c \in {Absent, Illisible},
        pl \in {<<>>, basename(chemin_copie(nom, plan))}}
    \ {[fs EXCEPT ![nom] = [existe |-> TRUE, config |-> Illisible, plan |-> <<>>]]}

\* creer_projet passes its checks and makes the directory, then copy2, open
\* or json.dump raises: the exception leaves the method, line 85 is not run
creer_projet_refuse(nom0, magasin, auteur, plan) ==
    LET nom == strip(nom0)
    IN  /\ creer_erreur(nom0, magasin, auteur, plan) = "ok"
        /\ fs' \in dossiers_apres_creation_refusee(nom, plan)
        /\ racine' = TRUE
        /\ resultat' = Issue("creer_projet", "OSError", <<>>)
        /\ UNCHANGED <<projet_actuel, instances>>

\* a supprimer_projet that resets the current project before the removal
actuel_reinitialise_avant(nom) ==
    IF projet_actuel # None /\ projet_actuel["nom"] = nom
    THEN None ELSE projet_actuel

\* the current project when shutil.rmtree raised: the reset is not reached
actuel_apres_suppression_refusee(nom) == projet_actuel

\* what a refused shutil.rmtree(nom) can leave: the directory of nom with
\* some or none of its files removed; for the root, the root with some or
\* none of the project directories removed
rmtree_refuse(nom) ==
    IF nom = <<>>
    THEN {[d \in Dossiers |-> IF d \in ds THEN DossierAbsent ELSE fs[d]] :
            ds \in SUBSET {d \in Dossiers : fs[d].existe}}
    ELSE {fs, [fs EXCEPT ![nom].config = Absent],
          [fs EXCEPT ![nom].config = Absent, ![nom].plan = <<>>]}

\* shutil.rmtree raises: the deletion error, after a removal in part
supprimer_projet_refuse(nom) ==
    /\ supprimer_erreur(nom) = "ok"
    /\ fs' \in rmtree_refuse(nom)
    /\ projet_actuel' = actuel_apres_suppression_refusee(nom)
    /\ resultat' = Issue("supprimer_projet", "DeletionError", <<>>)
    /\ UNCHANGED <<racine, instances>>

\* open or json.dump raises in sauvegarder although the directory is there
sauvegarder_refuse ==
    /\ sauvegarder_erreur(projet_actuel) = "ok"
    /\ fs' \in ecritures_refusees(projet_actuel["nom"])
    /\ resultat' = Issue("sauvegarder", "PersistenceError", <<>>)
    /\ UNCHANGED <<racine, projet_actuel, instances>>

\* a definir_produits_case that puts the former placements back when the
\* write is refused
actuel_restaure(avant, apres) == avant

\* the current project when sauvegarder() raised inside
\* definir_produits_case: the update made before the call stays
actuel_apres_ecriture_refusee(avant, apres) == apres

\* definir_produits_case whose sauvegarder() is refused the write
definir_produits_case_refuse(case, produits) ==
    /\ projet_actuel # None
    /\ ~definir_type_erreur(projet_actuel, case, produits)
    /\ LET p == definir_memoire(projet_actuel, case, produits)
       IN  /\ sauvegarder_erreur(p) = "ok"
           /\ taille(p) <= MaxPlaced
           /\ projet_actuel' = actuel_apres_ecriture_refusee(projet_actuel, p)
           /\ fs' \in ecritures_refusees(p["nom"])
           /\ resultat' = Issue("definir_produits_case", "PersistenceError", <<>>)
           /\ UNCHANGED <<racine, instances>>

\* the placements written while operations are refused: one case, set and
\* emptied
CasesRefus == {"A"}
ListesRefus == { <<>>, <<"x">> }

NextRefus ==
    \/ \E args \in ArgsCreer : creer_projet(args[1], args[2], args[3], args[4])
    \/ \E nom \in Noms : charger_projet(nom)
    \/ \E nom \in Noms : supprimer_projet(nom)
    \/ sauvegarder
    \/ \E case \in CasesRefus, produits \in ListesRefus :
         definir_produits_case(case, produits)
    \/ \E args \in ArgsCreer :
         creer_projet_refuse(args[1], args[2], args[3], args[4])
    \/ \E nom \in Noms : supprimer_projet_refuse(nom)
    \/ sauvegarder_refuse
    \/ \E case \in CasesRefus, produits \in ListesRefus :
         definir_produits_case_refuse(case, produits)

SpecRefus == Init /\ [][NextRefus]_vars

(***************************************************************************)
(* Properties                                                              *)
(***************************************************************************)
\* the call that led to this state was op and it returned normally
reussi(op) == resultat.op = op /\ resultat.err = "ok"

\* the document persisted for project p: the config.json of its directory
document(p) == fichier_config(p["nom"])

\* C1: the placements mapping of the current project never maps a case to
\* an empty list of products.
C1_JamaisDeListeVide ==
    (projet_actuel # None /\ projet_actuel["produits"].type = "dict") =>
        \A i \in 1..Len(projet_actuel["produits"].items) :
            projet_actuel["produits"].items[i].produits # <<>>

\* C2: when definir_produits_case(case, produits) returns normally for a
\* non-empty produits, obtenir_produits_case(case) returns produits, the
\* persisted document is the current project, and charger_projet of the
\* current project's name succeeds with case mapped to produits.
C2_DefinirPuisObtenir ==
    [][reussi("definir_produits_case")' =>
        \A case \in Cases, produits \in ListesProduits \ {<<>>} :
          definir_produits_case(case, produits) =>
            LET nom == projet_actuel'["nom"]
                f == fs'[nom].config
            IN  /\ obtenir_issue(projet_actuel', case)
                       = Issue("obtenir_produits_case", "ok", produits)
                /\ f = json_dump(projet_actuel')
                /\ charger_erreur_de(fs'[nom].existe, f) = "ok"
                /\ charger_config_de(f)["produits"].type = "dict"
                /\ dict_get(charger_config_de(f)["produits"].items, case) = produits
      ]_vars

C2_Temoin ==
    /\ reussi("definir_produits_case")
    /\ projet_actuel # None
    /\ projet_actuel["produits"] = Dict(<<Entry("A", <<"x", "y">>)>>)
    /\ document(projet_actuel) = json_dump(projet_actuel)

\* C3: when definir_produits_case(case, []) returns normally, case is absent
\* from the placements mapping in memory and in the persisted document,
\* obtenir_produits_case(case) returns the empty list, and the list of every
\* other case is as before.
C3_ListeVideRetireLaCase ==
    [][reussi("definir_produits_case")' =>
        \A case \in Cases :
          definir_produits_case(case, <<>>) =>
            LET p == projet_actuel'
                f == fs'[p["nom"]].config
            IN  /\ p["produits"].type = "dict"
                /\ ~dict_has(p["produits"].items, case)
                /\ lisible(f)
                /\ json_load(f)["produits"].type = "dict"
                /\ ~dict_has(json_load(f)["produits"].items, case)
                /\ obtenir_issue(p, case) = Issue("obtenir_produits_case", "ok", <<>>)
                /\ \A k \in Cases \ {case} :
                     dict_get(p["produits"].items, k)
                         = dict_get(projet_actuel["produits"].items, k)
      ]_vars

\* the arguments of a creer_projet call are all non-empty, the name also
\* once stripped
args_valides(args) ==
    /\ args[1] # <<>> /\ args[2] # "" /\ args[3] # "" /\ args[4] # <<>>
    /\ strip(args[1]) # <<>>

\* C4: creer_projet with valid arguments and a name whose directory exists
\* raises the duplicate error and changes neither the file system nor the
\* current project, whether or not the plan file exists.
C4_DoublonSansEffet ==
    [][resultat'.op = "creer_projet" =>
        \A args \in ArgsCreer :
          ( /\ args_valides(args)
            /\ exists(strip(args[1]))
            /\ creer_projet(args[1], args[2], args[3], args[4]) ) =>
              /\ resultat'.err = "DuplicateProjectError"
              /\ fs' = fs /\ racine' = racine /\ projet_actuel' = projet_actuel
      ]_vars

C4_Temoin ==
    /\ resultat = Issue("creer_projet", "DuplicateProjectError", <<>>)
    /\ projet_actuel # None
    /\ fs[<<"a">>].existe /\ fs[<<"a", "\\">>].existe

\* C5: creer_projet with valid arguments, a name that has no directory and a
\* plan that is not an existing file raises the missing-plan error and changes
\* neither the file system nor the current project.
C5_PlanIntrouvableSansEffet ==
    [][resultat'.op = "creer_projet" =>
        \A args \in ArgsCreer :
          ( /\ args_valides(args)
            /\ ~exists(strip(args[1]))
            /\ ~isfile(args[4])
            /\ creer_projet(args[1], args[2], args[3], args[4]) ) =>
              /\ resultat'.err = "AssetNotFoundError"
              /\ fs' = fs /\ racine' = racine /\ projet_actuel' = projet_actuel
      ]_vars

C5_Temoin ==
    /\ resultat = Issue("creer_projet", "AssetNotFoundError", <<>>)
    /\ projet_actuel # None
    /\ \E d \in Dossiers : ~fs[d].existe

\* C6: creer_projet with valid arguments, a stripped name that has no
\* directory and an existing plan file succeeds; the directory then exists and
\* holds a parsable document with the four required fields as given and an
\* empty placements mapping, and that project is the current one.
C6_CreationReussie ==
    [][resultat'.op = "creer_projet" =>
        \A args \in ArgsCreer :
          ( /\ args_valides(args)
            /\ ~exists(strip(args[1]))
            /\ isfile(args[4])
            /\ creer_projet(args[1], args[2], args[3], args[4]) ) =>
              LET nom == strip(args[1])
                  f == fs'[nom].config
              IN  /\ resultat'.err = "ok"
                  /\ fs'[nom].existe
                  /\ lisible(f)
                  /\ champs_requis \subseteq DOMAIN json_load(f)
                  /\ json_load(f)["nom"] = nom
                  /\ json_load(f)["magasin"] = args[2]
                  /\ json_load(f)["auteur"] = args[3]
                  /\ "produits" \in DOMAIN json_load(f)
                  /\ json_load(f)["produits"] = Dict(<<>>)
                  /\ projet_actuel' = json_load(f)
      ]_vars

C6_Temoin ==
    /\ reussi("creer_projet")
    /\ projet_actuel # None
    /\ projet_actuel["nom"] = <<"a", "\\">>
    /\ document(projet_actuel) = json_dump(projet_actuel)
    /\ fs[<<"a">>].existe

\* C7: after a successful creer_projet, charger_projet of the stripped name
\* succeeds and returns the created project: same nom, magasin, auteur and
\* chemin_plan, and an empty placements mapping.
C7_AllerRetour ==
    reussi("creer_projet") =>
        LET nom == projet_actuel["nom"]
        IN  /\ charger_erreur(nom) = "ok"
            /\ charger_config(nom)["nom"] = projet_actuel["nom"]
            /\ charger_config(nom)["magasin"] = projet_actuel["magasin"]
            /\ charger_config(nom)["auteur"] = projet_actuel["auteur"]
            /\ charger_config(nom)["produits"] = Dict(<<>>)
            /\ charger_config(nom)["chemin_plan"] = projet_actuel["chemin_plan"]

\* C8: a successful supprimer_projet(nom) removes the directory; afterwards
\* nothing is current exactly when nothing was current or the current project
\* was named nom, another current project is left as it was, and after the
\* current project is deleted obtenir_produits_case returns the empty list
\* for every case and sauvegarder raises the no-active-project error.
C8_Suppression ==
    [][reussi("supprimer_projet")' =>
        \A nom \in Noms :
          supprimer_projet(nom) =>
            /\ IF nom = <<>> THEN ~racine' ELSE ~fs'[nom].existe
            /\ (projet_actuel' = None)
                 <=> (projet_actuel = None \/ projet_actuel["nom"] = nom)
            /\ (projet_actuel # None /\ projet_actuel["nom"] # nom)
                 => projet_actuel' = projet_actuel
            /\ (projet_actuel # None /\ projet_actuel["nom"] = nom) =>
                 /\ \A case \in Cases :
                      obtenir_issue(projet_actuel', case)
                          = Issue("obtenir_produits_case", "ok", <<>>)
                 /\ sauvegarder_erreur(projet_actuel') = "NoActiveProjectError"
      ]_vars

C8_Temoin ==
    /\ reussi("supprimer_projet")
    /\ projet_actuel # None
    /\ projet_actuel["nom"] = <<"a", "\\">>
    /\ fs[<<"a", "\\">>].existe
    /\ ~fs[<<"a">>].existe
    /\ racine

\* C9: after every successful charger_projet the placements field of the
\* current project is a mapping, never a list.
C9_ToujoursUnDict ==
    reussi("charger_projet") => projet_actuel["produits"].type = "dict"

\* C10: charger_projet of a document that has the older key
\* "produits_par_case" and no "produits" key makes current a project whose
\* "produits" is the older value and which has no "produits_par_case"; and
\* the document written by a successful sauvegarder or definir_produits_case
\* (the config.json of the directory named by the current project) holds the
\* current placements under "produits" and has no "produits_par_case".
C10_AncienneCle ==
    [][ /\ reussi("charger_projet")' =>
            \A nom \in Noms :
              charger_projet(nom) =>
                LET d == json_load(fichier_config(nom))
                IN  ("produits_par_case" \in DOMAIN d /\ "produits" \notin DOMAIN d) =>
                      /\ "produits" \in DOMAIN projet_actuel'
                      /\ projet_actuel'["produits"] = d["produits_par_case"]
                      /\ "produits_par_case" \notin DOMAIN projet_actuel'
        /\ (reussi("sauvegarder")' \/ reussi("definir_produits_case")') =>
            LET p == projet_actuel'
                f == fs'[p["nom"]].config
            IN  /\ lisible(f)
                /\ "produits_par_case" \notin DOMAIN json_load(f)
                /\ "produits" \in DOMAIN json_load(f)
                /\ json_load(f)["produits"] = p["produits"]
      ]_vars

C10_Temoin ==
    /\ reussi("charger_projet")
    /\ lisible(fs[DossierInitial].config)
    /\ "produits_par_case" \in DOMAIN json_load(fs[DossierInitial].config)
    /\ "produits" \notin DOMAIN json_load(fs[DossierInitial].config)
    /\ json_load(fs[DossierInitial].config)["produits_par_case"]
           = Dict(<<Entry("B", <<"y">>), Entry("A", <<"x">>)>>)
    /\ projet_actuel["produits"] = Dict(<<Entry("B", <<"y">>), Entry("A", <<"x">>)>>)
    /\ "produits_par_case" \notin DOMAIN projet_actuel

\* C11: while nothing is current, sauvegarder and definir_produits_case raise
\* the no-active-project error and change neither the file system nor the
\* (empty) current project; obtenir_produits_case and
\* obtenir_tous_produits_places return the empty list and
\* trouver_case_produit returns None, none of them raising or changing
\* anything.
C11_SansProjetActuel ==
    [][projet_actuel = None =>
        /\ resultat'.op \in {"sauvegarder", "definir_produits_case"} =>
             /\ resultat'.err = "NoActiveProjectError"
             /\ fs' = fs /\ racine' = racine /\ projet_actuel' = None
        /\ resultat'.op \in {"obtenir_produits_case", "obtenir_tous_produits_places",
                             "trouver_case_produit"} =>
             /\ resultat'.err = "ok" /\ resultat'.ret = <<>>
             /\ fs' = fs /\ racine' = racine /\ projet_actuel' = None
      ]_vars

C11_Temoin ==
    /\ projet_actuel = None
    /\ resultat = Issue("definir_produits_case", "NoActiveProjectError", <<>>)
    /\ fs[DossierInitial].existe
    /\ lisible(fs[DossierInitial].config)

\* number of product occurrences in the entries before the i-th
debut(items, i) == nb_places(SubSeq(items, 1, i - 1))

\* C12: with a project current, obtenir_tous_produits_places returns the
\* lists of all cases one after the other in the iteration order of the
\* placements mapping: the list of the i-th case is found unchanged at its
\* place, and the length of the result is the sum of the lengths of the lists.
C12_Concatenation ==
    (resultat.op = "obtenir_tous_produits_places" /\ projet_actuel # None) =>
        /\ resultat.err = "ok"
        /\ projet_actuel["produits"].type = "dict"
        /\ LET items == projet_actuel["produits"].items
               ret == resultat.ret
           IN  /\ Len(ret) = nb_places(items)
               /\ \A i \in 1..Len(items) :
                    SubSeq(ret, debut(items, i) + 1,
                           debut(items, i) + Len(items[i].produits))
                        = items[i].produits

\* the keys of a dict in iteration order
cles(items) == [i \in 1..Len(items) |-> items[i].case]

\* a sequence of keys without key k
cles_sans(ks, k) == SelectSeq(ks, LAMBDA c : c # k)

\* C13: with a project current, trouver_case_produit(produit) returns the
\* first case, in the insertion order of the placements mapping, whose list
\* contains produit, and None when no list contains it; a successful
\* definir_produits_case keeps the position of a case whose list it replaces,
\* puts a new case last, and an emptied case leaves the order (so that a
\* case removed and added again is last).
C13_PremiereCase ==
    [][ /\ (resultat'.op = "trouver_case_produit" /\ projet_actuel # None) =>
            \A produit \in Produits :
              trouver_case_produit(produit) =>
                /\ resultat'.err = "ok"
                /\ LET items == projet_actuel["produits"].items
                       ret == resultat'.ret
                   IN  IF \E i \in 1..Len(items) : dans(produit, items[i].produits)
                       THEN /\ Len(ret) = 1
                            /\ \E i \in 1..Len(items) :
                                 /\ items[i].case = ret[1]
                                 /\ dans(produit, items[i].produits)
                                 /\ \A j \in 1..(i - 1) :
                                      ~dans(produit, items[j].produits)
                       ELSE ret = <<>>
        /\ reussi("definir_produits_case")' =>
            \A case \in Cases, produits \in ListesProduits :
              definir_produits_case(case, produits) =>
                /\ projet_actuel["produits"].type = "dict"
                /\ LET avant == cles(projet_actuel["produits"].items)
                       apres == cles(projet_actuel'["produits"].items)
                   IN  IF produits = <<>> THEN apres = cles_sans(avant, case)
                       ELSE IF \E i \in 1..Len(avant) : avant[i] = case
                       THEN apres = avant
                       ELSE apres = Append(avant, case)
      ]_vars

\* file f has the content of p: the four required fields and the placements
\* under "produits"
contenu_egal(p, f) ==
    /\ lisible(f)
    /\ \A k \in champs_requis \cup {"produits"} :
         /\ k \in DOMAIN json_load(f)
         /\ json_load(f)[k] = p[k]

meme_contenu(p) == contenu_egal(p, document(p))

\* C14 (as stated): in every state reached by a creer_projet, charger_projet,
\* definir_produits_case, sauvegarder or supprimer_projet that returned
\* normally, if a project is current the document persisted in its directory has the
\* content of the current project.
C14_SansEtatSale ==
    ( /\ resultat.err = "ok"
      /\ resultat.op \in {"creer_projet", "charger_projet", "definir_produits_case",
                          "sauvegarder", "supprimer_projet"}
      /\ projet_actuel # None ) =>
        meme_contenu(projet_actuel)

\* C14 (amended): in every state reached by a creer_projet, a
\* definir_produits_case or a sauvegarder that returned normally, the document
\* persisted in the directory named by the current project has the content of
\* the current project; charger_projet normalises in memory and writes
\* nothing.
C14_EcritureSynchrone ==
    (reussi("creer_projet") \/ reussi("definir_produits_case")
        \/ reussi("sauvegarder")) =>
        /\ projet_actuel # None
        /\ meme_contenu(projet_actuel)

C14_Temoin ==
    /\ reussi("sauvegarder")
    /\ projet_actuel["produits"].type = "list"
    /\ projet_actuel["nom"] = <<"a", "\\">>
    /\ document(projet_actuel) = json_dump(projet_actuel)

\* C15: when the creer_projet calls of two objects interleave, an object
\* that reaches os.makedirs for a name whose directory exists by then fails
\* there with FileExistsError, having changed neither the file system nor its
\* current project; the directory is created by at most one of the calls for
\* the same name; a document once written is never written again, and the
\* object about to make its project current finds its own document on disk.
C15_CourseALaCreation ==
    [][\A i \in Instances :
        /\ (instances[i].pc = "makedirs" /\ instances'[i] # instances[i]) =>
             IF fs[nom_de(i)].existe
             THEN /\ instances'[i].pc = "repos"
                  /\ instances'[i].err = "FileExistsError"
                  /\ instances'[i].projet_actuel = instances[i].projet_actuel
                  /\ fs' = fs
             ELSE /\ instances'[i].pc = "copy2"
                  /\ \A j \in Instances \ {i} :
                       instances[j].pc \in {"copy2", "dump", "affecter"}
                           => nom_de(j) # nom_de(i)
        /\ instances[i].pc = "affecter" =>
             fs[nom_de(i)].config = json_dump(config_de(i))
        /\ \A n \in Dossiers :
             lisible(fs[n].config) => fs'[n].config = fs[n].config
      ]_vars

C15_Temoin ==
    \E i, j \in Instances :
        /\ i # j
        /\ instances[i].pc = "repos"
        /\ instances[i].err = "FileExistsError"
        /\ instances[i].projet_actuel = None
        /\ instances[j].projet_actuel # None
        /\ instances[j].projet_actuel["nom"] = <<"a">>
        /\ fs[<<"a">>].config = json_dump(instances[j].projet_actuel)
        /\ ~fs[<<"a", "\\">>].existe

\* directory n is there without a parsable config.json
partiel(n) == fs[n].existe /\ ~lisible(fs[n].config)

\* C16: a creer_projet that fails after os.makedirs, at the plan copy or at
\* the write of config.json, leaves the directory without a parsable
\* config.json and the current project as it was; while a directory is in
\* that state creer_projet of its name raises the duplicate error and
\* charger_projet of its name raises the corrupt-configuration error; and the
\* directory, when it is not that of the current project, stays in that state
\* through every step but a successful supprimer_projet of its name.
C16_CreationInterrompue ==
    [][ /\ (resultat'.op = "creer_projet" /\ resultat'.err = "OSError") =>
            \A args \in ArgsCreer :
              creer_projet_refuse(args[1], args[2], args[3], args[4]) =>
                /\ fs'[strip(args[1])].existe
                /\ ~lisible(fs'[strip(args[1])].config)
                /\ projet_actuel' = projet_actuel
        /\ \A n \in Dossiers :
             partiel(n) =>
                 /\ \A args \in ArgsCreer :
                      (args_valides(args) /\ strip(args[1]) = n) =>
                        creer_erreur(args[1], args[2], args[3], args[4])
                            = "DuplicateProjectError"
                 /\ charger_erreur(n) = "CorruptConfigError"
                 /\ (projet_actuel = None \/ projet_actuel["nom"] # n) =>
                      \/ fs'[n].existe /\ ~lisible(fs'[n].config)
                      \/ reussi("supprimer_projet")' /\ supprimer_projet(n)
      ]_vars

\* C17 (as stated): when the write of config.json fails inside
\* definir_produits_case, the call raises the persistence error, the current
\* project holds the new placements (no rollback), and the current project
\* differs from the persisted document.
C17_SansRetourArriere ==
    [][(resultat'.op = "definir_produits_case"
            /\ resultat'.err = "PersistenceError") =>
        \A case \in CasesRefus, produits \in ListesRefus :
          (definir_produits_case(case, produits)
              \/ definir_produits_case_refuse(case, produits)) =>
            /\ projet_actuel' = definir_memoire(projet_actuel, case, produits)
            /\ ~contenu_egal(projet_actuel', fs'[projet_actuel'["nom"]].config)
      ]_vars

\* C17 (amended): when the write of config.json fails inside
\* definir_produits_case, the call raises the persistence error and the
\* current project holds the new placements (no rollback); the current
\* project then differs from the persisted document unless the refused write
\* left the file untouched and the file already had the new content.
C17_FenetreDIncoherence ==
    [][(resultat'.op = "definir_produits_case"
            /\ resultat'.err = "PersistenceError") =>
        \A case \in CasesRefus, produits \in ListesRefus :
          (definir_produits_case(case, produits)
              \/ definir_produits_case_refuse(case, produits)) =>
            /\ projet_actuel' = definir_memoire(projet_actuel, case, produits)
            /\ contenu_egal(projet_actuel', fs'[projet_actuel'["nom"]].config) =>
                 /\ fs' = fs
                 /\ contenu_egal(projet_actuel', fs[projet_actuel'["nom"]].config)
      ]_vars

C17_Temoin ==
    /\ resultat = Issue("definir_produits_case", "PersistenceError", <<>>)
    /\ projet_actuel["produits"] = Dict(<<Entry("A", <<"x">>)>>)
    /\ lisible(document(projet_actuel))
    /\ json_load(document(projet_actuel))["produits"] = Dict(<<>>)
    /\ json_load(document(projet_actuel))["nom"] = projet_actuel["nom"]

\* C18: a charger_projet, a creer_projet or a supprimer_projet that raises
\* leaves the current project as it was; the current project is replaced by
\* another one only by a creer_projet or charger_projet that returns normally
\* (or updated by definir_produits_case), and it is cleared only by a
\* supprimer_projet that returns normally, the directory being removed.
C18_EchecSansEffetSurActuel ==
    [][ /\ ( /\ resultat'.op \in {"creer_projet", "charger_projet",
                                  "supprimer_projet"}
             /\ resultat'.err # "ok" ) => projet_actuel' = projet_actuel
        /\ (projet_actuel' # projet_actuel /\ projet_actuel' # None) =>
             \/ reussi("creer_projet")'
             \/ reussi("charger_projet")'
             \/ resultat'.op = "definir_produits_case"
        /\ (projet_actuel # None /\ projet_actuel' = None) =>
             /\ reussi("supprimer_projet")'
             /\ ~fs'[projet_actuel["nom"]].existe
      ]_vars

C18_Temoin ==
    /\ resultat = Issue("supprimer_projet", "DeletionError", <<>>)
    /\ projet_actuel # None
    /\ projet_actuel["nom"] = <<"a">>
    /\ fs[<<"a">>].existe
    /\ fs[<<"a">>].config = Absent

\* C19: the name held by the current project is the name of the directory
\* it was created in or loaded from (also when the document read holds
\* another name), and a successful sauvegarder or definir_produits_case
\* changes no directory but that one.
C19_NomEgalDossier ==
    [][ /\ reussi("creer_projet")' =>
            \A args \in ArgsCreer :
              creer_projet(args[1], args[2], args[3], args[4]) =>
                projet_actuel'["nom"] = strip(args[1])
        /\ reussi("charger_projet")' =>
            \A nom \in Noms :
              charger_projet(nom) => projet_actuel'["nom"] = nom
        /\ (reussi("sauvegarder")' \/ reussi("definir_produits_case")') =>
            \A d \in Dossiers \ {projet_actuel'["nom"]} : fs'[d] = fs[d]
      ]_vars

\* C20: whenever a project is current, the directory of its name exists
\* under the projects root.
C20_DossierDuProjetActuel ==
    projet_actuel # None => (racine /\ isdir(projet_actuel["nom"]))

====
